---- MODULE Spec2Model ----
(***************************************************************************)
(* Model of Cloud.py: a Flask service with two routes in front of a        *)
(* BigQuery table.  POST /api/v1/track-click validates a JSON payload and  *)
(* appends one row; GET /api/v1/user-clicks/<user_id> returns the per-tab  *)
(* click counts of one user.                                               *)
(***************************************************************************)
EXTENDS Integers, Sequences, FiniteSets, Bags

(* ---------------- bounds ---------------- *)
\* ingest requests are explored while the table holds fewer rows than this
MaxRows == 3
\* readings of the server's wall clock are 1..MaxClock
MaxClock == 2

(* ---------------- values ---------------- *)
\* JSON null / SQL NULL
Null == "<null>"
Users == {"u1", "u2"}
Tabs == {"Home", "Settings"}
\* a click_timestamp sent by the client; never a reading of the server clock
ClientTs == 0
\* text of the exception a failing load job or query raises
JobErrorText == "403 Quota exceeded"
\* outcomes of a warehouse call: "" is success
JobOutcomes == {"", JobErrorText}

required_fields == {"user_id", "tab_name", "session_id", "app_version", "device_info"}

(* ---------------- payloads: what request.get_json() can return ---------- *)
ObjectPayload(f) == [kind |-> "object", fields |-> f, items |-> {}]
NullPayload == [kind |-> "null", fields |-> <<>>, items |-> {}]
\* a JSON array whose string elements are elems
ArrayPayload(elems) == [kind |-> "array", fields |-> <<>>, items |-> elems]
\* a JSON string; subs are the field names that occur in it as substrings
StringPayload(subs) == [kind |-> "string", fields |-> <<>>, items |-> subs]
NoData == [kind |-> "none", fields |-> <<>>, items |-> {}]

FieldValue(k, u, t) ==
    CASE k = "user_id" -> u
      [] k = "tab_name" -> t
      [] k = "session_id" -> "s1"
      [] k = "app_version" -> "1.0"
      [] k = "device_info" -> IF t = "Home" THEN "iPhone14" ELSE Null
      [] OTHER -> ClientTs

\* an object with the keys ks
Click(ks, u, t) == ObjectPayload([k \in ks |-> FieldValue(k, u, t)])

ValidPayloads ==
    {Click(required_fields, "u1", t) : t \in Tabs}
        \cup {Click(required_fields, "u2", "Home"),
              Click(required_fields \cup {"click_timestamp"}, "u1", "Home")}

InvalidPayloads ==
    {Click(required_fields \ {k}, "u1", "Home") : k \in required_fields}
        \cup {Click({"user_id"}, "u1", "Home")}

NonObjectPayloads ==
    {NullPayload, ArrayPayload(required_fields), StringPayload({})}

Payloads == ValidPayloads \cup InvalidPayloads \cup NonObjectPayloads

(* ---------------- results of Python calls ---------------- *)
Return(v) == [raised |-> FALSE, value |-> v, exc |-> ""]
Raise(e) == [raised |-> TRUE, value |-> FALSE, exc |-> e]

\* Python's `field in data`
SupportsIn(data) == data.kind \in {"object", "array", "string"}
Contains(data, field) ==
    IF data.kind = "object" THEN field \in DOMAIN data.fields
    ELSE field \in data.items

validate_click_data_any(data) ==
    IF SupportsIn(data)
    THEN Return(\E field \in required_fields : Contains(data, field))
    ELSE Raise("TypeError: argument is not iterable")

validate_click_data(data) ==
    IF SupportsIn(data)
    THEN Return(\A field \in required_fields : Contains(data, field))
    ELSE Raise("TypeError: argument is not iterable")

\* the exception the five data['...'] reads raise ("": none): a string key
\* indexes a dict only, and a dict only at a key it has
SubscriptError(data) ==
    IF data.kind # "object" THEN "TypeError: indices must be integers"
    ELSE IF \E k \in required_fields : k \notin DOMAIN data.fields THEN "KeyError"
    ELSE ""

ClickRow_swapped(data, now) ==
    [user_id |-> data.fields["user_id"],
     tab_name |-> data.fields["tab_name"],
     click_timestamp |-> now,
     session_id |-> data.fields["app_version"],
     app_version |-> data.fields["session_id"],
     device_info |-> data.fields["device_info"]]

ClickRow_clientTs(data, now) ==
    [user_id |-> data.fields["user_id"],
     tab_name |-> data.fields["tab_name"],
     click_timestamp |-> IF "click_timestamp" \in DOMAIN data.fields
                         THEN data.fields["click_timestamp"] ELSE now,
     session_id |-> data.fields["session_id"],
     app_version |-> data.fields["app_version"],
     device_info |-> data.fields["device_info"]]

\* the single row of the DataFrame track_click builds
ClickRow(data, now) ==
    [user_id |-> data.fields["user_id"],
     tab_name |-> data.fields["tab_name"],
     click_timestamp |-> now,
     session_id |-> data.fields["session_id"],
     app_version |-> data.fields["app_version"],
     device_info |-> data.fields["device_info"]]

(* ---------------- warehouse client ---------------- *)
\* the rows of a DataFrame as a bag
FrameRows(rows) ==
    [r \in {rows[i] : i \in DOMAIN rows} |->
        Cardinality({i \in DOMAIN rows : rows[i] = r})]

WRITE_TRUNCATE(tbl, rows) == FrameRows(rows)

\* write_disposition of the load job
WRITE_APPEND(tbl, rows) == tbl (+) FrameRows(rows)

\* load_data: one load job, awaited; outcome is the job's result
load_data(client, tbl, rows, outcome) ==
    IF client # "Client"
    THEN [raised |-> TRUE, exc |-> "AttributeError", table |-> tbl, jobs |-> <<>>,
          logged |-> <<<<"Failed to load data to BigQuery", "AttributeError">>>>]
    ELSE IF outcome = ""
    THEN [raised |-> FALSE, exc |-> "", table |-> WRITE_APPEND(tbl, rows),
          jobs |-> <<rows>>,
          logged |-> <<<<"Successfully loaded rows", "">>>>]
    ELSE [raised |-> TRUE, exc |-> outcome, table |-> tbl, jobs |-> <<rows>>,
          logged |-> <<<<"Failed to load data to BigQuery", outcome>>>>]

(* ---------------- HTTP responses ---------------- *)
MissingFieldsBody == [error |-> "Missing required fields"]
SuccessBody == [status |-> "success", message |-> "Click event recorded successfully"]
NoBody == [none |-> ""]

InternalError_leaky(e) == [status |-> 500, body |-> [error |-> e]]

\* the except branch of both handlers
InternalError(e) == [status |-> 500, body |-> [error |-> "Internal server error"]]

\* bookkeeping of one handled request: what came in, what went out, what
\* the handler did on the way
Handled(op, data, user, valid, stamped, now, resp, jobs, results, exc, logged) ==
    [op |-> op, data |-> data, user |-> user, valid |-> valid,
     stamped |-> stamped, now |-> now,
     status |-> resp.status, body |-> resp.body,
     loads |-> jobs, results |-> results, exc |-> exc, logged |-> logged]

NoRequest ==
    Handled("none", NoData, "", Return(FALSE), FALSE, 0,
            [status |-> 0, body |-> NoBody], <<>>, <<>>, "", <<>>)

\* track_click: the outcome of the handler on payload data at clock reading now
track_click(client, tbl, data, now, outcome) ==
    LET v == validate_click_data(data) IN
    IF v.raised
    THEN [table |-> tbl,
          last |-> Handled("track", data, "", v, FALSE, 0, InternalError(v.exc),
                           <<>>, <<>>, "",
                           <<<<"Error processing click event", v.exc>>>>)]
    ELSE IF ~v.value
    THEN [table |-> tbl,
          last |-> Handled("track", data, "", v, FALSE, 0,
                           [status |-> 400, body |-> MissingFieldsBody],
                           <<>>, <<>>, "", <<>>)]
    ELSE IF SubscriptError(data) # ""
    THEN [table |-> tbl,
          last |-> Handled("track", data, "", v, FALSE, 0,
                           InternalError(SubscriptError(data)), <<>>, <<>>, "",
                           <<<<"Error processing click event", SubscriptError(data)>>>>)]
    ELSE LET row == ClickRow(data, now)
             job == load_data(client, tbl, <<row>>, outcome)
         IN  IF job.raised
             THEN [table |-> job.table,
                   last |-> Handled("track", data, "", v, TRUE, row.click_timestamp,
                                    InternalError(job.exc), job.jobs, <<>>, job.exc,
                                    job.logged \o
                                      <<<<"Error processing click event", job.exc>>>>)]
             ELSE [table |-> job.table,
                   last |-> Handled("track", data, "", v, TRUE, row.click_timestamp,
                                    [status |-> 200, body |-> SuccessBody],
                                    job.jobs, <<>>, "", job.logged)]

(* ---------------- the aggregate query ---------------- *)
Where_all(tbl, user_id) == BagToSet(tbl)

\* WHERE user_id = @user_id  (a NULL user_id equals nothing): the distinct
\* rows selected, each of which counts tbl[r] times
Where(tbl, user_id) ==
    {r \in BagToSet(tbl) : r.user_id # Null /\ r.user_id = user_id}

\* COUNT(*) over the rows sel of tbl
RECURSIVE CountRows(_, _)
CountRows(tbl, sel) ==
    IF sel = {} THEN 0
    ELSE LET r == CHOOSE x \in sel : TRUE IN tbl[r] + CountRows(tbl, sel \ {r})

\* SELECT tab_name, COUNT(*) ... GROUP BY tab_name
GroupBy(tbl, sel) ==
    {[tab_name |-> t,
      click_count |-> CountRows(tbl, {r \in sel : r.tab_name = t})] :
        t \in {r.tab_name : r \in sel}}

OrderBy_asc(s) ==
    \A i, j \in DOMAIN s : i < j => s[i].click_count <= s[j].click_count

\* ORDER BY click_count DESC
OrderBy(s) ==
    \A i, j \in DOMAIN s : i < j => s[i].click_count >= s[j].click_count

\* the row sequences the warehouse may return for the query
QueryResults(tbl, user_id) ==
    LET g == GroupBy(tbl, Where(tbl, user_id)) IN
    {s \in [1..Cardinality(g) -> g] :
        /\ \A i, j \in DOMAIN s : i # j => s[i] # s[j]
        /\ OrderBy(s)}

click_stats_reversed(results) ==
    [i \in DOMAIN results |->
        [tab_name |-> results[Len(results) + 1 - i].tab_name,
         click_count |-> results[Len(results) + 1 - i].click_count]]

\* the list comprehension over the result rows
click_stats(results) ==
    [i \in DOMAIN results |->
        [tab_name |-> results[i].tab_name, click_count |-> results[i].click_count]]

get_user_clicks(client, user_id, results, outcome) ==
    IF client # "Client"
    THEN Handled("get", NoData, user_id, Return(FALSE), FALSE, 0,
                 InternalError("AttributeError"), <<>>, <<>>, "",
                 <<<<"Error retrieving click statistics", "AttributeError">>>>)
    ELSE IF outcome # ""
    THEN Handled("get", NoData, user_id, Return(FALSE), FALSE, 0,
                 InternalError(outcome), <<>>, <<>>, outcome,
                 <<<<"Error retrieving click statistics", outcome>>>>)
    ELSE Handled("get", NoData, user_id, Return(FALSE), FALSE, 0,
                 [status |-> 200,
                  body |-> [user_id |-> user_id,
                            click_statistics |-> click_stats(results)]],
                 <<>>, results, "", <<>>)

(* ---------------- client construction ---------------- *)
BigQueryClient_init_swallow(credentialsOK) ==
    IF credentialsOK THEN [raised |-> FALSE, client |-> "Client"]
    ELSE [raised |-> FALSE, client |-> "broken"]

\* BigQueryClient.__init__: logs and re-raises when no credential is usable
BigQueryClient_init(credentialsOK) ==
    IF credentialsOK THEN [raised |-> FALSE, client |-> "Client"]
    ELSE [raised |-> TRUE, client |-> "undefined"]

(* ---------------- state ---------------- *)
VARIABLES
    phase,          \* "start" (importing the module), "serving", "dead"
    bq_client,      \* the module-level client handle
    constructions,  \* how many times BigQueryClient(...) has run
    table,          \* PROJECT.analytics_dataset.tab_clicks: an unordered bag of rows
    clock,          \* the server's wall clock (datetime.utcnow)
    last,           \* the most recently handled request
    prevStamp,      \* timestamp given to the previous valid ingest (0: none)
    setBack         \* the wall clock was set back since prevStamp was given

vars == <<phase, bq_client, constructions, table, clock, last, prevStamp, setBack>>

Init ==
    /\ phase = "start"
    /\ bq_client = "undefined"
    /\ constructions = 0
    /\ table = EmptyBag
    /\ clock = 1
    /\ last = NoRequest
    /\ prevStamp = 0
    /\ setBack = FALSE

\* module import: bq_client = BigQueryClient(PROJECT_ID); a raise ends the process
Construct ==
    /\ phase = "start"
    /\ \E credentialsOK \in BOOLEAN :
         LET c == BigQueryClient_init(credentialsOK) IN
         /\ phase' = IF c.raised THEN "dead" ELSE "serving"
         /\ bq_client' = c.client
    /\ constructions' = constructions + 1
    /\ UNCHANGED <<table, clock, last, prevStamp, setBack>>

\* POST /api/v1/track-click
TrackClick ==
    /\ phase = "serving"
    /\ BagCardinality(table) < MaxRows
    /\ \E data \in Payloads, outcome \in JobOutcomes :
         LET r == track_click(bq_client, table, data, clock, outcome) IN
         /\ table' = r.table
         /\ last' = r.last
         /\ prevStamp' = IF r.last.stamped THEN r.last.now ELSE prevStamp
         /\ setBack' = IF r.last.stamped THEN FALSE ELSE setBack
    /\ UNCHANGED <<phase, bq_client, constructions, clock>>

\* GET /api/v1/user-clicks/<user_id>
GetUserClicks ==
    /\ phase = "serving"
    /\ \E user_id \in Users, outcome \in JobOutcomes :
         \E results \in QueryResults(table, user_id) :
            last' = get_user_clicks(bq_client, user_id, results, outcome)
    /\ UNCHANGED <<phase, bq_client, constructions, table, clock, prevStamp, setBack>>

\* time passes
Tick ==
    /\ clock < MaxClock
    /\ clock' = clock + 1
    /\ UNCHANGED <<phase, bq_client, constructions, table, last, prevStamp, setBack>>

\* the system clock is stepped back (utcnow reads the adjustable wall clock)
ClockSetBack ==
    /\ \E t \in 1..(clock - 1) : clock' = t
    /\ setBack' = TRUE
    /\ UNCHANGED <<phase, bq_client, constructions, table, last, prevStamp>>

Next == Construct \/ TrackClick \/ GetUserClicks \/ Tick \/ ClockSetBack

Spec == Init /\ [][Next]_vars

(* ======================= properties ======================= *)
\* the payload is a JSON object that has all five required keys
HasAllFields(data) ==
    data.kind = "object" /\ required_fields \subseteq DOMAIN data.fields

\* a step that handles a request (the other steps move the clock or the phase)
RequestStep == phase = "serving" /\ phase' = "serving" /\ clock' = clock

\* C1: an ingest whose payload lacks a required field answers 400 with
\* {error: "Missing required fields"} and never invokes the load operation.
C1_MissingFieldsRejected ==
    (last.op = "track" /\ ~HasAllFields(last.data)) =>
        /\ last.status = 400
        /\ last.body = MissingFieldsBody
        /\ last.loads = <<>>

\* C2: an ingest whose payload has all five keys invokes the load exactly
\* once, with a batch of one row whose five fields equal the payload's.
C2_LoadOnceWithMatchingRow ==
    (last.op = "track" /\ HasAllFields(last.data)) =>
        /\ Len(last.loads) = 1
        /\ Len(last.loads[1]) = 1
        /\ \A f \in required_fields : last.loads[1][1][f] = last.data.fields[f]

C2_Witness ==
    /\ last.op = "track"
    /\ HasAllFields(last.data)
    /\ last.exc = JobErrorText
    /\ Len(last.loads) = 1

\* C3: when the warehouse call raises, the answer is 500 with body exactly
\* {error: "Internal server error"}, without the exception text; a 200 is
\* sent only when the warehouse call raised nothing.
C3_WarehouseFailureIs500 ==
    /\ last.exc # "" =>
          /\ last.status = 500
          /\ last.body = [error |-> "Internal server error"]
          /\ \A k \in DOMAIN last.body : last.body[k] # last.exc
    /\ last.status = 200 => last.exc = ""

C3_Witness ==
    /\ last.op \in {"track", "get"}
    /\ last.exc = JobErrorText
    /\ last.status = 500
    /\ <<"Error processing click event", JobErrorText>> \in
          {last.logged[i] : i \in DOMAIN last.logged}

C5_PersistedRowsValidAndServerStamped ==
    /\ [][table' # table =>
            /\ last'.op = "track"
            /\ last'.valid.value
            /\ HasAllFields(last'.data)
            /\ \E r \in BagToSet(table') :
                 /\ CopiesIn(r, table') > CopiesIn(r, table)
                 /\ r.click_timestamp = clock
                 /\ \A f \in required_fields : r[f] = last'.data.fields[f]]_vars
    /\ [](\A r \in BagToSet(table) : r.click_timestamp \in 1..MaxClock)

C5_Witness ==
    /\ BagCardinality(table) > 0
    /\ last.op = "track"
    /\ last.status = 200
    /\ "click_timestamp" \in DOMAIN last.data.fields

\* C6: the table is append-only: a successful ingest adds exactly one row
\* after the rows already there; every other step (a read-aggregate, a 400
\* or a 500 ingest) leaves the table as it was.
C6_AppendOnly ==
    [][IF RequestStep /\ last'.op = "track" /\ last'.status = 200
       THEN /\ BagCardinality(table') = BagCardinality(table) + 1
            /\ table \sqsubseteq table'
       ELSE table' = table]_vars

C6_Witness ==
    /\ BagCardinality(table) >= 2
    /\ last.op = "track"
    /\ last.status = 500
    /\ last.exc # ""

\* number of persisted events of user u on tab t
ClickCount(u, t) ==
    BagCardinality([r \in {x \in BagToSet(table) : x.user_id = u /\ x.tab_name = t}
                      |-> table[r]])

\* C7: a successful read-aggregate echoes the user_id and lists, once per
\* tab the user has events on, the number of the user's events on that tab;
\* other users' events are not counted.
C7_CountsPerTabOfUser ==
    (last.op = "get" /\ last.status = 200) =>
        /\ last.body.user_id = last.user
        /\ LET st == last.body.click_statistics IN
             /\ \A i \in DOMAIN st :
                   /\ st[i].click_count > 0
                   /\ st[i].click_count = ClickCount(last.user, st[i].tab_name)
             /\ \A t \in Tabs \cup {Null} :
                   Cardinality({i \in DOMAIN st : st[i].tab_name = t}) =
                      IF ClickCount(last.user, t) > 0 THEN 1 ELSE 0

C7_Witness ==
    /\ last.op = "get"
    /\ last.status = 200
    /\ last.user = "u1"
    /\ Len(last.body.click_statistics) = 2
    /\ \E r \in BagToSet(table) : r.user_id = "u2"

\* C8: the click_statistics of a successful read-aggregate are the
\* warehouse's result rows in the order received, none dropped or repeated,
\* and so sorted by click_count descending.
C8_StatsSortedDescending ==
    (last.op = "get" /\ last.status = 200) =>
        LET st == last.body.click_statistics IN
        /\ Len(st) = Len(last.results)
        /\ \A i \in DOMAIN st :
              /\ st[i].tab_name = last.results[i].tab_name
              /\ st[i].click_count = last.results[i].click_count
        /\ \A i, j \in DOMAIN st : i < j => st[i].click_count >= st[j].click_count

C8_Witness ==
    /\ last.op = "get"
    /\ last.status = 200
    /\ Len(last.body.click_statistics) = 2
    /\ last.body.click_statistics[1].click_count > last.body.click_statistics[2].click_count

\* a step in which an ingest request got a timestamp
StampStep == RequestStep /\ last'.op = "track" /\ last'.stamped

\* C9 (as stated): the timestamps given to ingests are non-decreasing in
\* handling order.
C9_TimestampsNonDecreasing ==
    [][StampStep => last'.now >= prevStamp]_vars

\* C9 (amended): the timestamp of an ingest is the reading of the server's
\* wall clock when the request is handled; timestamps are non-decreasing in
\* handling order as long as that clock was not set back in between.
C9_TimestampIsClockReading ==
    [][StampStep =>
          /\ last'.now = clock
          /\ ~setBack => last'.now >= prevStamp]_vars

C9_Witness ==
    /\ last.op = "track"
    /\ last.stamped
    /\ prevStamp = MaxClock
    /\ ~setBack
    /\ \E r \in BagToSet(table) : r.click_timestamp < prevStamp

\* C10: the client is constructed once, before any request; a failed
\* construction ends the process with no request served, and no request is
\* ever handled with a client whose construction failed.
C10_ConstructOnceOrDie ==
    /\ constructions <= 1
    /\ phase = "start" => constructions = 0 /\ last = NoRequest
    /\ phase = "serving" => constructions = 1 /\ bq_client = "Client"
    /\ phase = "dead" => last = NoRequest /\ table = EmptyBag
    /\ last.op # "none" => phase = "serving" /\ bq_client = "Client"

C10_Witness ==
    /\ phase = "dead"
    /\ constructions = 1
    /\ bq_client = "undefined"

====
